---- MODULE Spec2Model ----
(***************************************************************************)
(* Model of scripts/check-cloudflare-dns.py, the pre-flight check for      *)
(* DNS-01 certificate issuance with Cloudflare, and of                     *)
(* scripts/check_db_connection.py, the database reachability utility.      *)
(*                                                                         *)
(* Python strings are sequences of characters. A character is an atom      *)
(* written as a TLA+ string: "." is the dot, "=" the equals sign, " " a    *)
(* blank, and a word such as "example" stands for one dot-free, blank-free *)
(* character, so that <<"example", ".", "com">> is the text example.com.   *)
(***************************************************************************)
EXTENDS Integers, Sequences, FiniteSets, TLC

\* ------------------------------------------------------------------ bounds

\* Longest certificate record sequence of a store.
MaxCerts == 2
\* Longest zone list of a list-zones response.
MaxZones == 2

\* ----------------------------------------------------------------- strings

EmptyStr == << >>

S_dns == <<"dns">>
S_cloudflare == <<"cloudflare">>
S_placeholder == <<"paste-domain-here">>
S_example_com == <<"example", ".", "com">>
S_app_example_com == <<"app", ".", "example", ".", "com">>
S_other_com == <<"other", ".", "com">>
S_app_example_co_uk == <<"app", ".", "example", ".", "co", ".", "uk">>
S_co_uk == <<"co", ".", "uk">>

K_LE_CHALLENGE == <<"LE_CHALLENGE">>
K_LE_DNS_PROVIDER == <<"LE_DNS_PROVIDER">>
K_DOMAIN == <<"DOMAIN">>
K_SUBDOMAIN == <<"SUBDOMAIN">>
K_CF_DNS_API_TOKEN == <<"CF_DNS_API_TOKEN">>
K_CF_API_TOKEN == <<"CF_API_TOKEN">>

\* str.strip(): the characters Python treats as whitespace.
Whitespace == {" ", "\t", "\n"}

RECURSIVE LStrip(_)
LStrip(s) == IF s # << >> /\ Head(s) \in Whitespace THEN LStrip(Tail(s)) ELSE s

RECURSIVE RStrip(_)
RStrip(s) ==
    IF s # << >> /\ s[Len(s)] \in Whitespace
    THEN RStrip(SubSeq(s, 1, Len(s) - 1))
    ELSE s

Strip(s) == RStrip(LStrip(s))

\* s.startswith(c) and s.endswith(c) for a one-character c.
StartsWith(s, c) == s # << >> /\ s[1] = c
EndsWith(s, c) == s # << >> /\ s[Len(s)] = c

\* c in s, for a one-character c.
HasChar(s, c) == \E i \in 1..Len(s) : s[i] = c

\* Index of the first occurrence of c in s (c must occur).
FirstIndex(s, c) == CHOOSE i \in 1..Len(s) : s[i] = c /\ \A j \in 1..(i - 1) : s[j] # c

\* needle in hay, for strings (substring test).
IsSubstring(needle, hay) ==
    \E i \in 0..(Len(hay) - Len(needle)) :
        \A j \in 1..Len(needle) : hay[i + j] = needle[j]

\* s.split(sep) for a one-character separator: always at least one part.
RECURSIVE Split(_, _)
Split(s, sep) ==
    IF ~HasChar(s, sep)
    THEN <<s>>
    ELSE LET i == FirstIndex(s, sep)
         IN  <<SubSeq(s, 1, i - 1)>> \o Split(SubSeq(s, i + 1, Len(s)), sep)

\* sep.join(parts)
RECURSIVE Join(_, _)
Join(parts, sep) ==
    IF parts = << >> THEN << >>
    ELSE IF Len(parts) = 1 THEN parts[1]
    ELSE parts[1] \o sep \o Join(Tail(parts), sep)

\* ------------------------------------------------------------ dictionaries

\* A Python dict with string keys is a function whose domain is its key set.
EmptyDict == << >>

DictGet(d, k, default) == IF k \in DOMAIN d THEN d[k] ELSE default
DictSet(d, k, v) == [x \in (DOMAIN d) \cup {k} |-> IF x = k THEN v ELSE d[x]]

\* ------------------------------------------------- load_env_file, get_env_value

\* One iteration of the line loop of load_env_file.
ParseLine(env_vars, raw) ==
    LET line == Strip(raw) IN
    IF line = << >> \/ StartsWith(line, "#") THEN env_vars
    ELSE IF ~HasChar(line, "=") THEN env_vars
    ELSE LET i == FirstIndex(line, "=")
             key == Strip(SubSeq(line, 1, i - 1))
             value == Strip(SubSeq(line, i + 1, Len(line)))
             unquoted ==
                 IF StartsWith(value, "\"") /\ EndsWith(value, "\"")
                 THEN SubSeq(value, 2, Len(value) - 1)
                 ELSE IF StartsWith(value, "'") /\ EndsWith(value, "'")
                 THEN SubSeq(value, 2, Len(value) - 1)
                 ELSE value
         IN  DictSet(env_vars, key, unquoted)

RECURSIVE ParseLines(_, _)
ParseLines(env_vars, lines) ==
    IF lines = << >> THEN env_vars
    ELSE ParseLines(ParseLine(env_vars, Head(lines)), Tail(lines))

\* A configuration file: absent, present but failing to open or decode, or
\* a sequence of lines.
load_env_file(file) ==
    IF ~file.exists THEN EmptyDict
    ELSE IF ~file.readable THEN EmptyDict
    ELSE ParseLines(EmptyDict, file.lines)

\* The lookup with the file taking precedence over the environment.
get_env_value_FileFirst(key, env_vars, os_environ) ==
    DictGet(env_vars, key, DictGet(os_environ, key, EmptyStr))

\* os.environ.get(key, env_vars.get(key, ''))
get_env_value(key, env_vars, os_environ) ==
    DictGet(os_environ, key, DictGet(env_vars, key, EmptyStr))

\* -------------------------------------------------------------- JSON values

\* What json.load can return, tagged by its Python type.
\* (each type keeps its payload in a field of its own)
JNull == [t |-> "null"]
JBool(b) == [t |-> "bool", b |-> b]
JNum(n) == [t |-> "num", n |-> n]
JStr(s) == [t |-> "str", s |-> s]
JList(xs) == [t |-> "list", xs |-> xs]
JDict(d) == [t |-> "dict", d |-> d]

IsDict(j) == j.t = "dict"

\* Python truth value: not j.
Falsy(j) ==
    CASE j.t = "null" -> TRUE
      [] j.t = "bool" -> ~j.b
      [] j.t = "num"  -> j.n = 0
      [] j.t = "str"  -> j.s = << >>
      [] j.t = "list" -> j.xs = << >>
      [] j.t = "dict" -> DOMAIN j.d = {}

\* Whether `key in j` is defined: dict, list and str are containers, the
\* other types raise TypeError.
SupportsIn(j) == j.t \in {"dict", "list", "str"}

\* key in j, for a container j and a string key.
Contains(j, key) ==
    CASE j.t = "dict" -> key \in DOMAIN j.d
      [] j.t = "list" -> \E i \in 1..Len(j.xs) : j.xs[i].t = "str" /\ j.xs[i].s = key
      [] j.t = "str"  -> IsSubstring(key, j.s)

\* Whether `for x in j` is defined.
Iterable(j) == j.t \in {"dict", "list", "str"}

RECURSIVE SetToSeq(_)
SetToSeq(S) ==
    IF S = {} THEN << >>
    ELSE LET x == CHOOSE y \in S : TRUE IN <<x>> \o SetToSeq(S \ {x})

\* The elements `for x in j` yields: the items of a list, the keys of a
\* dict, the characters of a str.
Items(j) ==
    CASE j.t = "list" -> j.xs
      [] j.t = "dict" -> LET ks == SetToSeq(DOMAIN j.d)
                         IN  [i \in 1..Len(ks) |-> JStr(ks[i])]
      [] j.t = "str"  -> [i \in 1..Len(j.s) |-> JStr(<<j.s[i]>>)]

\* ------------------------------------- check_certificates_exist_and_valid

K_dns == <<"dns">>
K_Certificates == <<"Certificates">>
K_domain == <<"domain">>
K_main == <<"main">>

\* The two ways a call ends.
Returned(valid, msg) == [kind |-> "return", valid |-> valid, msg |-> msg]
Raised(exc) == [kind |-> "raise", valid |-> FALSE, msg |-> <<exc>>]

\* f"*.{domain}"
Wildcard(domain) == <<"*", ".">> \o domain

\* The comparison of line 170.
CertMatches(cert_domain, domain) ==
    cert_domain.t = "str"
    /\ (cert_domain.s = domain \/ cert_domain.s = Wildcard(domain))

\* The inner loop (lines 166-179) from record i on: "found", "notfound", or
\* the exception a record raises before a match is reached.
RECURSIVE ScanCerts(_, _, _)
ScanCerts(certs, i, domain) ==
    IF i > Len(certs) THEN "notfound"
    ELSE LET cert == certs[i] IN
         IF ~IsDict(cert) THEN "AttributeError"
         ELSE LET dom == DictGet(cert.d, K_domain, JDict(EmptyDict)) IN
              IF ~IsDict(dom) THEN "AttributeError"
              ELSE IF CertMatches(DictGet(dom.d, K_main, JStr(EmptyStr)), domain)
                   THEN "found"
                   ELSE ScanCerts(certs, i + 1, domain)

\* The outer loop (lines 162-186) from domain k on, with the state of
\* all_valid and messages so far.
RECURSIVE ScanDomains(_, _, _, _, _)
ScanDomains(certificates, domains, k, all_valid, messages) ==
    IF k > Len(domains) THEN Returned(all_valid, messages)
    ELSE IF ~Iterable(certificates) THEN Raised("TypeError")
    ELSE LET r == ScanCerts(Items(certificates), 1, domains[k]) IN
         CASE r = "found" ->
                ScanDomains(certificates, domains, k + 1, all_valid,
                            Append(messages, <<"Certificate found for", domains[k]>>))
           [] r = "notfound" ->
                ScanDomains(certificates, domains, k + 1, FALSE,
                            Append(messages, <<"No certificate found for", domains[k]>>))
           [] OTHER -> Raised(r)

check_certificates_exist_and_valid(storage, domains) ==
    IF ~storage.exists
    THEN Returned(FALSE, <<"ACME storage file not found">>)
    ELSE IF ~storage.parsable
    THEN Returned(FALSE, <<"Failed to read ACME storage">>)
    ELSE LET acme_data == storage.data IN
    IF Falsy(acme_data)
    THEN Returned(FALSE, <<"No DNS resolver certificates found in ACME storage">>)
    ELSE IF ~SupportsIn(acme_data) THEN Raised("TypeError")
    ELSE IF ~Contains(acme_data, K_dns)
    THEN Returned(FALSE, <<"No DNS resolver certificates found in ACME storage">>)
    ELSE IF ~IsDict(acme_data) THEN Raised("AttributeError")
    ELSE LET dns_data == DictGet(acme_data.d, K_dns, JDict(EmptyDict)) IN
    IF ~IsDict(dns_data) THEN Raised("AttributeError")
    ELSE LET certificates == DictGet(dns_data.d, K_Certificates, JList(<< >>)) IN
    IF Falsy(certificates)
    THEN Returned(FALSE, <<"No certificates found in DNS resolver storage">>)
    ELSE ScanDomains(certificates, domains, 1, TRUE, << >>)

\* ------------------------------------------ validate_cloudflare_credentials

\* The credential check with the legacy name scanned first.
validate_cloudflare_credentials_LegacyFirst(env_vars, os_environ) ==
    LET first == get_env_value(K_CF_API_TOKEN, env_vars, os_environ)
        cf_token == IF first = EmptyStr
                    THEN get_env_value(K_CF_DNS_API_TOKEN, env_vars, os_environ)
                    ELSE first
    IN  IF cf_token = EmptyStr
        THEN [valid |-> FALSE, token |-> << >>,
              error |-> <<"Cloudflare API token is required but not found">>]
        ELSE [valid |-> TRUE, token |-> cf_token, error |-> << >>]

\* (valid, token_value, error_message); None is the empty sequence.
validate_cloudflare_credentials(env_vars, os_environ) ==
    LET first == get_env_value(K_CF_DNS_API_TOKEN, env_vars, os_environ)
        cf_token == IF first = EmptyStr
                    THEN get_env_value(K_CF_API_TOKEN, env_vars, os_environ)
                    ELSE first
    IN  IF cf_token = EmptyStr
        THEN [valid |-> FALSE, token |-> << >>,
              error |-> <<"Cloudflare API token is required but not found">>]
        ELSE [valid |-> TRUE, token |-> cf_token, error |-> << >>]

\* ----------------------------------------- test_cloudflare_api_connectivity

K_success == <<"success">>
K_errors == <<"errors">>
K_result == <<"result">>
K_id == <<"id">>
K_name == <<"name">>
K_status == <<"status">>
K_code == <<"code">>
K_message == <<"message">>

\* e.read().decode(): the body is a sequence of bytes. "0xC3" followed by
\* "0xA9" is the two-byte encoding of one character, "0xFF" begins no
\* character, every other byte is the character of the same name. The
\* result is the text, or the UnicodeDecodeError of a body that is not UTF-8.
Decode(bytes) ==
    LET n == Len(bytes)
        ok == \A i \in 1..n :
                 /\ bytes[i] # "0xFF"
                 /\ bytes[i] = "0xC3" => (i < n /\ bytes[i + 1] = "0xA9")
                 /\ bytes[i] = "0xA9" => (i > 1 /\ bytes[i - 1] = "0xC3")
        IsFirstByte(b) == b # "0xA9"
        firsts == SelectSeq(bytes, IsFirstByte)
    IN  [ok |-> ok,
         text |-> IF ok
                  THEN [i \in 1..Len(firsts) |->
                           IF firsts[i] = "0xC3" THEN "e-acute" ELSE firsts[i]]
                  ELSE << >>]

\* error_body[:200]
BodyPrefix == 200
Truncate(body) ==
    SubSeq(body, 1, IF Len(body) < BodyPrefix THEN Len(body) ELSE BodyPrefix)

\* The derivation keeping the last three labels.
BaseDomain_LastThree(domain) ==
    LET domain_parts == Split(domain, ".")
        n == Len(domain_parts)
    IN  IF n > 2
        THEN Join(SubSeq(domain_parts, n - 2, n), <<".">>)
        ELSE domain

\* Lines 260-266.
BaseDomain(domain) ==
    LET domain_parts == Split(domain, ".")
        n == Len(domain_parts)
    IN  IF n > 2
        THEN Join(SubSeq(domain_parts, n - 1, n), <<".">>)
        ELSE domain

\* The result triple (success, error_message, zone_info).
ApiFail(error) == [ok |-> FALSE, error |-> error, zone_info |-> JNull]
ApiOk(zone_info) == [ok |-> TRUE, error |-> << >>, zone_info |-> zone_info]

\* The dict of lines 337-341.
ZoneInfo(id, name, status) ==
    JDict((K_id :> id) @@ (K_name :> name) @@ (K_status :> status))

\* What handling the first response leads to: a final result, or the second
\* request for the zone that was selected.
Final(result) == [final |-> TRUE, result |-> result, zone |-> JNull]
Selected(zone) == [final |-> FALSE, result |-> ApiFail(<< >>), zone |-> zone]

\* Lines 283 and 333: "code: message" of each error; a non-mapping error
\* raises AttributeError.
ErrorsWellFormed(errors) ==
    Iterable(errors) /\ \A i \in 1..Len(Items(errors)) : IsDict(Items(errors)[i])

ErrorMsgs(errors) ==
    LET es == Items(errors)
    IN  [i \in 1..Len(es) |->
            <<DictGet(es[i].d, K_code, JStr(<<"unknown">>)),
              DictGet(es[i].d, K_message, JStr(<<"unknown error">>))>>]

\* The comparison preferring nothing but the exact domain.
ZoneMatches_ExactOnly(zone_name, domain, base_domain) ==
    zone_name.t = "str" /\ zone_name.s = domain

\* The comparison of line 300.
ZoneMatches(zone_name, domain, base_domain) ==
    zone_name.t = "str" /\ (zone_name.s = domain \/ zone_name.s = base_domain)

\* The loop of lines 295-302 from zone i on: the zone it breaks on (None
\* when it runs to the end), the names appended so far, and whether a
\* non-mapping zone raised.
RECURSIVE ScanZones(_, _, _, _, _)
ScanZones(zones, i, domain, base_domain, accessible_zones) ==
    IF i > Len(zones)
    THEN [raised |-> FALSE, domain_zone |-> JNull, accessible_zones |-> accessible_zones]
    ELSE IF ~IsDict(zones[i])
    THEN [raised |-> TRUE, domain_zone |-> JNull, accessible_zones |-> accessible_zones]
    ELSE LET zone_name == DictGet(zones[i].d, K_name, JStr(EmptyStr))
             names == Append(accessible_zones, zone_name)
         IN  IF ZoneMatches(zone_name, domain, base_domain)
             THEN [raised |-> FALSE, domain_zone |-> zones[i], accessible_zones |-> names]
             ELSE ScanZones(zones, i + 1, domain, base_domain, names)

\* Lines 279-317: the body of the first response, once parsed.
ZonesBody(data, domain, base_domain) ==
    IF ~IsDict(data) THEN Final(ApiFail(<<"Request failed", "AttributeError">>))
    ELSE IF Falsy(DictGet(data.d, K_success, JNull))
    THEN LET errors == DictGet(data.d, K_errors, JList(<< >>)) IN
         IF ~ErrorsWellFormed(errors)
         THEN Final(ApiFail(<<"Request failed", "Exception">>))
         ELSE Final(ApiFail(<<"API call failed", ErrorMsgs(errors)>>))
    ELSE LET zones == DictGet(data.d, K_result, JList(<< >>)) IN
         IF Falsy(zones)
         THEN Final(ApiFail(<<"API token has no access to any zones">>))
         ELSE IF ~Iterable(zones)
         THEN Final(ApiFail(<<"Request failed", "TypeError">>))
         ELSE LET scan == ScanZones(Items(zones), 1, domain, base_domain, << >>) IN
              IF scan.raised
              THEN Final(ApiFail(<<"Request failed", "AttributeError">>))
              ELSE IF Falsy(scan.domain_zone)
              THEN Final(ApiFail(<<"Domain not found in accessible zones",
                                   domain, base_domain, scan.accessible_zones>>))
              ELSE Selected(scan.domain_zone)

\* Lines 270-278: urlopen refuses a header value with a line break in it
\* (ValueError: Invalid header value), before anything is sent.
IllegalHeaderValue(value) == HasChar(value, "\n") \/ HasChar(value, "\r")

\* f'Bearer {api_token}'
Bearer(api_token) == <<"Bearer", " ">> \o api_token

\* Lines 359-360 for that ValueError: str(e) shows the header value.
InvalidHeader(api_token) ==
    ApiFail(<<"Request failed", "Invalid header value", Bearer(api_token)>>)

\* Lines 277-317 and 351-360: the first request, by what urlopen and
\* response.read() do.
ZonesOutcome(resp, domain, base_domain) ==
    CASE resp.kind = "JSON" -> ZonesBody(resp.data, domain, base_domain)
      [] resp.kind = "BadJSON" ->
            Final(ApiFail(<<"Request failed", "JSONDecodeError">>))
      [] resp.kind = "HTTPError" ->
            IF resp.code = 403
            THEN Final(ApiFail(<<"API token is valid but has insufficient permissions">>))
            ELSE IF ~Decode(resp.body).ok
            THEN Final(ApiFail(<<"Unexpected error", "UnicodeDecodeError">>))
            ELSE Final(ApiFail(<<"HTTP", resp.code, Truncate(Decode(resp.body).text)>>))
      [] resp.kind = "URLError" -> Final(ApiFail(<<"Network error", resp.reason>>))
      [] resp.kind = "ReadTimeout" -> Final(ApiFail(<<"Request failed", "timed out">>))

\* The second request taking any parsed mapping for a success.
DnsOutcome_IgnoreFlag(resp, domain_zone) ==
    LET zone_id == DictGet(domain_zone.d, K_id, JNull)
        zone_name == DictGet(domain_zone.d, K_name, JNull)
    IN
    CASE resp.kind = "JSON" ->
            IF ~IsDict(resp.data)
            THEN ApiFail(<<"Request failed", "AttributeError">>)
            ELSE ApiOk(ZoneInfo(zone_id, zone_name,
                                DictGet(domain_zone.d, K_status, JStr(<<"unknown">>))))
      [] resp.kind = "BadJSON" -> ApiFail(<<"Request failed", "JSONDecodeError">>)
      [] resp.kind = "HTTPError" ->
            IF resp.code = 403
            THEN ApiFail(<<"API token does not have DNS read permission for zone", zone_name>>)
            ELSE IF ~Decode(resp.body).ok
            THEN ApiFail(<<"Request failed", "UnicodeDecodeError">>)
            ELSE ApiFail(<<"HTTP when checking DNS permissions", resp.code,
                           Truncate(Decode(resp.body).text)>>)
      [] resp.kind = "URLError" -> ApiFail(<<"Network error", resp.reason>>)
      [] resp.kind = "ReadTimeout" -> ApiFail(<<"Request failed", "timed out">>)

\* Lines 320-349 and 357-360: the second request, for the selected zone.
DnsOutcome(resp, domain_zone) ==
    LET zone_id == DictGet(domain_zone.d, K_id, JNull)
        zone_name == DictGet(domain_zone.d, K_name, JNull)
    IN
    CASE resp.kind = "JSON" ->
            IF ~IsDict(resp.data)
            THEN ApiFail(<<"Request failed", "AttributeError">>)
            ELSE IF Falsy(DictGet(resp.data.d, K_success, JNull))
            THEN LET errors == DictGet(resp.data.d, K_errors, JList(<< >>)) IN
                 IF ~ErrorsWellFormed(errors)
                 THEN ApiFail(<<"Request failed", "Exception">>)
                 ELSE ApiFail(<<"API token cannot access DNS records for zone",
                                zone_name, ErrorMsgs(errors)>>)
            ELSE ApiOk(ZoneInfo(zone_id, zone_name,
                                DictGet(domain_zone.d, K_status, JStr(<<"unknown">>))))
      [] resp.kind = "BadJSON" -> ApiFail(<<"Request failed", "JSONDecodeError">>)
      [] resp.kind = "HTTPError" ->
            IF resp.code = 403
            THEN ApiFail(<<"API token does not have DNS read permission for zone", zone_name>>)
            ELSE IF ~Decode(resp.body).ok
            THEN ApiFail(<<"Request failed", "UnicodeDecodeError">>)
            ELSE ApiFail(<<"HTTP when checking DNS permissions", resp.code,
                           Truncate(Decode(resp.body).text)>>)
      [] resp.kind = "URLError" -> ApiFail(<<"Network error", resp.reason>>)
      [] resp.kind = "ReadTimeout" -> ApiFail(<<"Request failed", "timed out">>)

\* ------------------------------------------------------------------- state

VARIABLES
    os_environ,     \* the process environment (a dict)
    env_file,       \* the configuration file named by --env-file
    acme_storage,   \* the ACME storage file named by --acme-storage
    pc,             \* where the running function stands
    env_vars,       \* main: the result of load_env_file
    config,         \* main: le_challenge, le_dns_provider, domain, subdomain
    domains,        \* main: the domain list; the argument of the certificate check
    certs,          \* the result of check_certificates_exist_and_valid
    creds,          \* the result of validate_cloudflare_credentials
    probe,          \* test_cloudflare_api_connectivity: its arguments and selected zone
    api,            \* the result of test_cloudflare_api_connectivity
    requests,       \* the HTTP requests sent so far, in order
    responses,      \* what each request met, in the same order
    storage_read,   \* whether the ACME storage was looked at
    lookup,         \* the key and the result of a single get_env_value call
    log,            \* the lines printed so far
    verdict,        \* the terminal verdict of the run
    exit_code,      \* the process exit status, -1 while running
    argv,           \* check_db_connection.py: sys.argv
    database        \* check_db_connection.py: the driver, the server, the attempts made

vars == <<os_environ, env_file, acme_storage, pc, env_vars, config, domains, certs,
          creds, probe, api, requests, responses, storage_read, lookup, log, verdict,
          exit_code, argv, database>>

externals == <<os_environ, env_file, acme_storage, argv, database>>

\* ------------------------------------------------------------------ inputs

S_http == <<"http">>
S_route53 == <<"route53">>
S_app == <<"app">>
S_tokenA == <<"token-A">>
S_tokenB == <<"token-B">>
\* Tokens with a line break inside.
S_tokenC == <<"token-C", "\n", "x">>
S_tokenD == <<"token-D", "\n", "x">>
S_wild_example_com == Wildcard(S_example_com)

Keys == {K_LE_CHALLENGE, K_LE_DNS_PROVIDER, K_DOMAIN, K_SUBDOMAIN,
         K_CF_DNS_API_TOKEN, K_CF_API_TOKEN}

\* A choice per key: << >> leaves the key unset, <<v>> sets it to v.
EnvChoice(k) ==
    CASE k = K_LE_CHALLENGE     -> {<< >>, <<S_dns>>, <<S_http>>}
      [] k = K_LE_DNS_PROVIDER  -> {<< >>, <<S_cloudflare>>, <<S_route53>>}
      [] k = K_DOMAIN           -> {<< >>, <<EmptyStr>>, <<S_example_com>>,
                                    <<S_app_example_com>>, <<S_placeholder>>}
      [] k = K_SUBDOMAIN        -> {<< >>, <<S_app>>}
      [] k = K_CF_DNS_API_TOKEN -> {<< >>, <<EmptyStr>>, <<S_tokenA>>}
      [] k = K_CF_API_TOKEN     -> {<< >>, <<S_tokenB>>, <<S_tokenC>>}

DictOfChoice(c) == [k \in {x \in DOMAIN c : c[x] # << >>} |-> c[k][1]]

Environments ==
    {DictOfChoice((K_LE_CHALLENGE :> a) @@ (K_LE_DNS_PROVIDER :> b) @@ (K_DOMAIN :> c)
                  @@ (K_SUBDOMAIN :> d) @@ (K_CF_DNS_API_TOKEN :> e)
                  @@ (K_CF_API_TOKEN :> f)) :
        a \in EnvChoice(K_LE_CHALLENGE), b \in EnvChoice(K_LE_DNS_PROVIDER),
        c \in EnvChoice(K_DOMAIN), d \in EnvChoice(K_SUBDOMAIN),
        e \in EnvChoice(K_CF_DNS_API_TOKEN), f \in EnvChoice(K_CF_API_TOKEN)}

\* The environments of a whole run: those that do not set the preferred
\* token to the empty string, and that set the token with a line break only
\* as the single credential, without a subdomain.
RunEnvironments ==
    {env \in Environments :
        /\ K_CF_DNS_API_TOKEN \in DOMAIN env => env[K_CF_DNS_API_TOKEN] # EmptyStr
        /\ DictGet(env, K_CF_API_TOKEN, EmptyStr) = S_tokenC =>
               DOMAIN env \cap {K_CF_DNS_API_TOKEN, K_SUBDOMAIN} = {}}

File(exists, readable, lines) == [exists |-> exists, readable |-> readable, lines |-> lines]

\* A configuration file as an operator would write it.
FullFile ==
    File(TRUE, TRUE,
         << <<"#", " ", "settings">>,
            << >>,
            <<"LE_CHALLENGE", "=", "dns">>,
            <<"LE_DNS_PROVIDER", " ", "=", " ", "cloudflare", "\n">>,
            <<"DOMAIN", "=", "\"", "example", ".", "com", "\"">>,
            <<"no-equals-sign">>,
            <<"CF_API_TOKEN", "=", "'", "token-C", "'">> >>)

\* A file that sets the preferred token, an empty legacy token and the
\* placeholder domain.
TokenFile ==
    File(TRUE, TRUE,
         << <<"CF_DNS_API_TOKEN", "=", "token-C">>,
            <<"CF_API_TOKEN", "=", "\"", "\"">>,
            <<" ", "DOMAIN", "=", "paste-domain-here", " ">>,
            <<"SUBDOMAIN", "=", "app">> >>)

EnvFiles == {File(FALSE, FALSE, << >>), File(TRUE, FALSE, << >>), FullFile, TokenFile}

\* Sequences over S of length lo..hi.
SeqsOf(S, lo, hi) == UNION {[1..n -> S] : n \in lo..hi}

Storage(exists, parsable, data) == [exists |-> exists, parsable |-> parsable, data |-> data]

\* A certificate record with the given main label.
Rec(main) == JDict(K_domain :> JDict(K_main :> JStr(main)))

\* The record's certificate, as the certificate manager stores it next to
\* the domain: one whose validity period is over.
K_certificate == <<"certificate">>
S_expired_pem == <<"PEM, notAfter in the past">>
ExpiredRec(main) ==
    JDict((K_domain :> JDict(K_main :> JStr(main))) @@ (K_certificate :> JStr(S_expired_pem)))

\* Well-formed records, and the structural surprises a record can hold: not
\* a mapping, no 'domain', a 'domain' that is not a mapping, no 'main'.
GoodRecords == {Rec(S_example_com), Rec(S_wild_example_com), Rec(S_app_example_com),
                ExpiredRec(S_example_com)}
OddRecords == {JStr(<<"x">>), JDict(EmptyDict), JDict(K_domain :> JNull),
               JDict(K_domain :> JDict(EmptyDict))}

\* The parsed documents other than a 'dns' resolver with a record list.
OddDocuments ==
    {JNull, JList(<< >>), JNum(5), JStr(K_dns), JList(<<JStr(K_dns)>>),
     JDict(S_http :> JDict(EmptyDict)),
     JDict(K_dns :> JNull), JDict(K_dns :> JList(<< >>)), JDict(K_dns :> JDict(EmptyDict)),
     JDict(K_dns :> JDict(K_Certificates :> JNull)),
     JDict(K_dns :> JDict(K_Certificates :> JList(<< >>))),
     JDict(K_dns :> JDict(K_Certificates :> JNum(5))),
     JDict(K_dns :> JDict(K_Certificates :> JStr(<<"x">>))),
     JDict(K_dns :> JDict(K_Certificates :> JDict(<<"x">> :> JNull)))}

StoragesOver(records) ==
    {Storage(FALSE, FALSE, JNull), Storage(TRUE, FALSE, JNull)}
    \cup {Storage(TRUE, TRUE, d) : d \in OddDocuments}
    \cup {Storage(TRUE, TRUE, JDict(K_dns :> JDict(K_Certificates :> JList(l)))) :
            l \in SeqsOf(records, 1, MaxCerts)}

\* The stores of the certificate check taken alone, and those of a whole run.
Storages == StoragesOver(GoodRecords \cup OddRecords)
RunStorages == StoragesOver({Rec(S_example_com), ExpiredRec(S_wild_example_com),
                             JStr(<<"x">>)})

\* The domain lists main can build, and the empty one.
DomainLists ==
    {<< >>, <<S_example_com>>, <<S_app_example_com>>,
     <<S_example_com, S_app_example_com>>,
     <<S_app_example_com, S_app \o <<".">> \o S_app_example_com>>}

\* What urlopen and response.read() can do with a request.
Response(kind, code, reason, body, data) ==
    [kind |-> kind, code |-> code, reason |-> reason, body |-> body, data |-> data]

JsonResponse(data) == Response("JSON", 200, << >>, << >>, data)

Zone(id, name, status) ==
    JDict((K_id :> JStr(id)) @@ (K_name :> JStr(name)) @@ (K_status :> JStr(status)))

S_example_co_uk == <<"example", ".", "co", ".", "uk">>

ZoneObjects ==
    {Zone(<<"id-example">>, S_example_com, <<"active">>),
     Zone(<<"id-other">>, S_other_com, <<"active">>),
     Zone(<<"id-app">>, S_app_example_com, <<"pending">>),
     Zone(<<"id-uk">>, S_example_co_uk, <<"active">>),
     JDict(K_name :> JStr(S_example_com)),
     JDict(K_id :> JStr(<<"id-bare">>))}

RunZoneObjects ==
    {Zone(<<"id-example">>, S_example_com, <<"active">>),
     Zone(<<"id-app">>, S_app_example_com, <<"pending">>)}

ApiError == JDict((K_code :> JNum(1000)) @@ (K_message :> JStr(<<"Invalid API Token">>)))

Envelope(success, errors, result) ==
    JDict((K_success :> JBool(success)) @@ (K_errors :> errors) @@ (K_result :> result))

\* A body longer than the prefix the error message keeps.
LongBody == [i \in 1..(BodyPrefix + 1) |-> "x"]

\* A body of more characters than the prefix, each of two bytes, and a body
\* that is not UTF-8.
AccentedBody == [i \in 1..(2 * (BodyPrefix + 1)) |-> IF i % 2 = 1 THEN "0xC3" ELSE "0xA9"]
BadBody == <<"0xFF", "x">>

\* The failures of either request: transport, HTTP status, body.
FailedResponses ==
    {Response("HTTPError", 502, <<"Bad Gateway">>, AccentedBody, JNull),
     Response("HTTPError", 502, <<"Bad Gateway">>, BadBody, JNull)} \cup
    {Response("URLError", 0, <<"Name or service not known">>, << >>, JNull),
     Response("ReadTimeout", 0, << >>, << >>, JNull),
     Response("HTTPError", 403, <<"Forbidden">>, << >>, JNull),
     Response("HTTPError", 500, <<"Server Error">>, <<"oops">>, JNull),
     Response("HTTPError", 500, <<"Server Error">>, LongBody, JNull),
     Response("BadJSON", 200, << >>, << >>, JNull),
     JsonResponse(JList(<< >>)),
     JsonResponse(JDict(EmptyDict)),
     JsonResponse(Envelope(FALSE, JList(<<ApiError>>), JNull)),
     JsonResponse(Envelope(FALSE, JList(<<JStr(<<"x">>)>>), JNull))}

ZoneResponsesOver(zones) ==
    FailedResponses
    \cup {JsonResponse(JDict(K_success :> JBool(TRUE))),
          JsonResponse(Envelope(TRUE, JList(<< >>), JNum(5))),
          JsonResponse(Envelope(TRUE, JList(<< >>), JList(<<JStr(<<"x">>)>>)))}
    \cup {JsonResponse(Envelope(TRUE, JList(<< >>), JList(l))) :
            l \in SeqsOf(zones, 0, MaxZones)}

ZoneResponses == ZoneResponsesOver(ZoneObjects)

\* The failures met in a whole run: one of each kind.
RunFailedResponses ==
    {Response("URLError", 0, <<"Name or service not known">>, << >>, JNull),
     Response("ReadTimeout", 0, << >>, << >>, JNull),
     Response("HTTPError", 403, <<"Forbidden">>, << >>, JNull),
     Response("HTTPError", 500, <<"Server Error">>, <<"oops">>, JNull),
     JsonResponse(Envelope(FALSE, JList(<<ApiError>>), JNull))}

RunZoneResponses ==
    RunFailedResponses
    \cup {JsonResponse(Envelope(TRUE, JList(<< >>), JList(l))) :
            l \in SeqsOf(RunZoneObjects, 0, MaxZones)}

DnsResponses ==
    FailedResponses \cup {JsonResponse(Envelope(TRUE, JList(<< >>), JList(<< >>)))}

RunDnsResponses ==
    RunFailedResponses \cup {JsonResponse(Envelope(TRUE, JList(<< >>), JList(<< >>)))}

\* The second request as one that writes a record.
ListDnsRequest_Post(api_token, zone_id) ==
    [method |-> "POST", path |-> <<"zones/", zone_id, "/dns_records">>,
     bearer |-> api_token]

\* The requests the probe sends.
ListZonesRequest(api_token) ==
    [method |-> "GET", path |-> <<"zones?per_page=50">>, bearer |-> api_token]
ListDnsRequest(api_token, zone_id) ==
    [method |-> "GET", path |-> <<"zones/", zone_id, "/dns_records?per_page=1">>,
     bearer |-> api_token]

\* -------------------------------------------------------------------- Init

NoConfig == [le_challenge |-> << >>, le_dns_provider |-> << >>,
             domain |-> << >>, subdomain |-> << >>]
NoCerts == [kind |-> "none", valid |-> FALSE, msg |-> << >>]
NoCreds == [valid |-> FALSE, token |-> << >>, error |-> << >>]
NoProbe == [api_token |-> << >>, domain |-> << >>, base_domain |-> << >>,
            domain_zone |-> JNull]
NoApi == [ok |-> FALSE, error |-> << >>, zone_info |-> JNull]
NoLookup == [key |-> << >>, value |-> << >>]

\* check-cloudflare-dns.py connects to no database.
NoDatabase == [installed |-> FALSE, reachable |-> FALSE, attempts |-> 0]

Locals ==
    /\ env_vars = EmptyDict
    /\ config = NoConfig
    /\ certs = NoCerts
    /\ creds = NoCreds
    /\ api = NoApi
    /\ requests = << >>
    /\ responses = << >>
    /\ storage_read = FALSE
    /\ lookup = NoLookup
    /\ log = << >>
    /\ verdict = "none"
    /\ exit_code = -1
    /\ argv = << >>
    /\ database = NoDatabase

\* A run of the script: any environment, configuration file and store.
Init ==
    /\ os_environ \in RunEnvironments
    /\ env_file \in EnvFiles
    /\ acme_storage \in RunStorages
    /\ pc = "main"
    /\ domains = << >>
    /\ probe = NoProbe
    /\ Locals

\* ------------------------------------------------------------ main, by step

Logged(entries) == log' = log \o entries

Exit(code, v) ==
    /\ pc' = "exited"
    /\ exit_code' = code
    /\ verdict' = v

\* Lines 384-393: parse the configuration file and look the four values up.
LoadConfig ==
    /\ pc = "main"
    /\ env_vars' = load_env_file(env_file)
    /\ config' = [le_challenge    |-> get_env_value(K_LE_CHALLENGE, env_vars', os_environ),
                  le_dns_provider |-> get_env_value(K_LE_DNS_PROVIDER, env_vars', os_environ),
                  domain          |-> get_env_value(K_DOMAIN, env_vars', os_environ),
                  subdomain       |-> get_env_value(K_SUBDOMAIN, env_vars', os_environ)]
    /\ Logged(IF env_file.exists /\ ~env_file.readable
              THEN << <<"ERROR", "Failed to parse .env file">> >>
              ELSE << >>)
    /\ pc' = "check_challenge"
    /\ UNCHANGED <<externals, domains, certs, creds, probe, api, requests, responses,
                   storage_read, lookup, verdict, exit_code>>

\* Lines 396-399.
CheckChallenge ==
    /\ pc = "check_challenge"
    /\ IF config.le_challenge # S_dns
       THEN /\ Logged(<< <<"INFO", "LE_CHALLENGE is not 'dns' - skipping Cloudflare DNS check">> >>)
            /\ Exit(0, "Skipped")
       ELSE /\ pc' = "check_provider"
            /\ UNCHANGED <<log, verdict, exit_code>>
    /\ UNCHANGED <<externals, env_vars, config, domains, certs, creds, probe, api,
                   requests, responses, storage_read, lookup>>

\* The provider check without its early exit.
CheckProvider_NoSkip ==
    /\ pc = "check_provider"
    /\ Logged(<< <<"INFO", "DNS-01 challenge with Cloudflare provider detected">> >>)
    /\ pc' = "check_domain"
    /\ UNCHANGED <<externals, env_vars, config, domains, certs, creds, probe, api,
                   requests, responses, storage_read, lookup, verdict, exit_code>>

\* Lines 402-407.
CheckProvider ==
    /\ pc = "check_provider"
    /\ IF config.le_dns_provider # S_cloudflare
       THEN /\ Logged(<< <<"INFO", "LE_DNS_PROVIDER is not 'cloudflare' - skipping",
                           config.le_dns_provider>> >>)
            /\ Exit(0, "Skipped")
       ELSE /\ Logged(<< <<"INFO", "DNS-01 challenge with Cloudflare provider detected">> >>)
            /\ pc' = "check_domain"
            /\ UNCHANGED <<verdict, exit_code>>
    /\ UNCHANGED <<externals, env_vars, config, domains, certs, creds, probe, api,
                   requests, responses, storage_read, lookup>>

\* Lines 416-418.
BuildDomains(domain, subdomain) ==
    IF subdomain # EmptyStr
    THEN <<domain, subdomain \o <<".">> \o domain>>
    ELSE <<domain>>

\* The domain check that only rejects the empty domain.
CheckDomain_EmptyOnly ==
    /\ pc = "check_domain"
    /\ IF config.domain = EmptyStr
       THEN /\ Logged(<< <<"ERROR", "DOMAIN is not configured properly in .env">>,
                         <<"INFO", "Please set DOMAIN to your actual domain name">> >>)
            /\ Exit(1, "FailedConfigError")
            /\ UNCHANGED domains
       ELSE /\ domains' = BuildDomains(config.domain, config.subdomain)
            /\ Logged(<< <<"INFO", "Checking certificates for domains", domains'>> >>)
            /\ pc' = "check_certs"
            /\ UNCHANGED <<verdict, exit_code>>
    /\ UNCHANGED <<externals, env_vars, config, certs, creds, probe, api, requests, responses,
                   storage_read, lookup>>

\* Lines 410-420.
CheckDomain ==
    /\ pc = "check_domain"
    /\ IF config.domain = EmptyStr \/ config.domain = S_placeholder
       THEN /\ Logged(<< <<"ERROR", "DOMAIN is not configured properly in .env">>,
                         <<"INFO", "Please set DOMAIN to your actual domain name">> >>)
            /\ Exit(1, "FailedConfigError")
            /\ UNCHANGED domains
       ELSE /\ domains' = BuildDomains(config.domain, config.subdomain)
            /\ Logged(<< <<"INFO", "Checking certificates for domains", domains'>> >>)
            /\ pc' = "check_certs"
            /\ UNCHANGED <<verdict, exit_code>>
    /\ UNCHANGED <<externals, env_vars, config, certs, creds, probe, api, requests, responses,
                   storage_read, lookup>>

\* Lines 423-433. An exception of the certificate check is caught nowhere:
\* the interpreter prints the traceback and exits with status 1.
CheckCerts ==
    /\ pc = "check_certs"
    /\ storage_read' = TRUE
    /\ certs' = check_certificates_exist_and_valid(acme_storage, domains)
    /\ CASE certs'.kind = "raise" ->
              /\ pc' = "crashed"
              /\ exit_code' = 1
              /\ Logged(<< <<"TRACEBACK", certs'.msg>> >>)
              /\ UNCHANGED verdict
         [] certs'.kind = "return" /\ certs'.valid ->
              /\ Logged(<< <<"PASS", "Valid certificates already exist for all domains">>,
                           <<"INFO", "Skipping Cloudflare credential validation (certificates present)">>,
                           <<"INFO", certs'.msg>> >>)
              /\ Exit(0, "PassedCertsValid")
         [] OTHER ->
              /\ Logged(<< <<"WARN", "Certificates not found or may be expired">>,
                           <<"INFO", certs'.msg>>,
                           <<"INFO", "Proceeding with Cloudflare credential validation...">> >>)
              /\ pc' = "check_creds"
              /\ UNCHANGED <<verdict, exit_code>>
    /\ UNCHANGED <<externals, env_vars, config, domains, creds, probe, api, requests, responses,
                   lookup>>

\* The credential check calling the probe with the last domain of the list.
CheckCreds_ProbeLast ==
    /\ pc = "check_creds"
    /\ creds' = validate_cloudflare_credentials(env_vars, os_environ)
    /\ IF ~creds'.valid
       THEN /\ Logged(<< <<"ERROR", "Cloudflare credentials validation failed">>,
                         <<"ERROR", creds'.error>> >>)
            /\ Exit(1, "FailedMissingCredential")
            /\ UNCHANGED probe
       ELSE /\ Logged(<< <<"PASS", "Cloudflare API token found">>,
                         <<"INFO", "Testing Cloudflare API connectivity and domain access...">> >>)
            /\ probe' = [NoProbe EXCEPT !.api_token = creds'.token,
                                        !.domain = domains[Len(domains)]]
            /\ pc' = "probe"
            /\ UNCHANGED <<verdict, exit_code>>
    /\ UNCHANGED <<externals, env_vars, config, domains, certs, api, requests, responses,
                   storage_read, lookup>>

\* Lines 436-447: the credential check, and the call of the probe.
CheckCreds ==
    /\ pc = "check_creds"
    /\ creds' = validate_cloudflare_credentials(env_vars, os_environ)
    /\ IF ~creds'.valid
       THEN /\ Logged(<< <<"ERROR", "Cloudflare credentials validation failed">>,
                         <<"ERROR", creds'.error>> >>)
            /\ Exit(1, "FailedMissingCredential")
            /\ UNCHANGED probe
       ELSE /\ Logged(<< <<"PASS", "Cloudflare API token found">>,
                         <<"INFO", "Testing Cloudflare API connectivity and domain access...">> >>)
            /\ probe' = [NoProbe EXCEPT !.api_token = creds'.token, !.domain = config.domain]
            /\ pc' = "probe"
            /\ UNCHANGED <<verdict, exit_code>>
    /\ UNCHANGED <<externals, env_vars, config, domains, certs, api, requests, responses,
                   storage_read, lookup>>

\* Lines 251-266: the probe derives the base domain.
ProbeStart ==
    /\ pc = "probe"
    /\ probe' = [probe EXCEPT !.base_domain = BaseDomain(probe.domain)]
    /\ pc' = "list_zones"
    /\ UNCHANGED <<externals, env_vars, config, domains, certs, creds, api, requests, responses,
                   storage_read, lookup, log, verdict, exit_code>>

\* Lines 268-317 and 351-360: the list-zones request and its response.
ProbeListZones(menu) ==
    /\ pc = "list_zones"
    /\ IF IllegalHeaderValue(Bearer(probe.api_token))
       THEN /\ api' = InvalidHeader(probe.api_token)
            /\ pc' = "probe_returned"
            /\ UNCHANGED <<probe, requests, responses>>
       ELSE /\ requests' = Append(requests, ListZonesRequest(probe.api_token))
            /\ \E resp \in menu :
                  LET out == ZonesOutcome(resp, probe.domain, probe.base_domain) IN
                  /\ responses' = Append(responses, resp)
                  /\ IF out.final
                     THEN /\ api' = out.result
                          /\ pc' = "probe_returned"
                          /\ UNCHANGED probe
                     ELSE /\ probe' = [probe EXCEPT !.domain_zone = out.zone]
                          /\ pc' = "list_dns"
                          /\ UNCHANGED api
    /\ UNCHANGED <<externals, env_vars, config, domains, certs, creds, storage_read,
                   lookup, log, verdict, exit_code>>

\* The second request sent again after a failure, once.
ProbeListDns_Retry(menu) ==
    /\ pc = "list_dns"
    /\ requests' = Append(requests,
                          ListDnsRequest(probe.api_token,
                                         DictGet(probe.domain_zone.d, K_id, JNull)))
    /\ \E resp \in menu :
          /\ responses' = Append(responses, resp)
          /\ api' = DnsOutcome(resp, probe.domain_zone)
          /\ pc' = IF ~api'.ok /\ Len(requests) < 2 THEN "list_dns" ELSE "probe_returned"
    /\ UNCHANGED <<externals, env_vars, config, domains, certs, creds, probe,
                   storage_read, lookup, log, verdict, exit_code>>

\* Lines 320-349 and 357-360: the list-DNS-records request and its response.
ProbeListDns(menu) ==
    /\ pc = "list_dns"
    /\ requests' = Append(requests,
                          ListDnsRequest(probe.api_token,
                                         DictGet(probe.domain_zone.d, K_id, JNull)))
    /\ \E resp \in menu :
          /\ responses' = Append(responses, resp)
          /\ api' = DnsOutcome(resp, probe.domain_zone)
    /\ pc' = "probe_returned"
    /\ UNCHANGED <<externals, env_vars, config, domains, certs, creds, probe,
                   storage_read, lookup, log, verdict, exit_code>>

\* Lines 449-472: what main prints for a result of the probe.
ApiVerdictLines(result) ==
    IF ~result.ok
    THEN << <<"ERROR", "Cloudflare API connectivity or domain access check failed">>,
            <<"ERROR", result.error>>,
            <<"ERROR", "Common issues and fixes">> >>
    ELSE << <<"PASS", "Cloudflare API connectivity test successful">>,
            <<"PASS", "Token has access to zone",
              result.zone_info.d[K_name], result.zone_info.d[K_status]>>,
            <<"INFO", "Ready to issue certificates via DNS-01 challenge">> >>

\* Lines 449-472.
ApiVerdict ==
    /\ pc = "probe_returned"
    /\ Logged(ApiVerdictLines(api))
    /\ IF ~api.ok
       THEN Exit(1, "FailedApiZoneError")
       ELSE Exit(0, "PassedApiValidated")
    /\ UNCHANGED <<externals, env_vars, config, domains, certs, creds, probe, api,
                   requests, responses, storage_read, lookup>>

Next ==
    \/ LoadConfig
    \/ CheckChallenge
    \/ CheckProvider
    \/ CheckDomain
    \/ CheckCerts
    \/ CheckCreds
    \/ ProbeStart
    \/ ProbeListZones(RunZoneResponses)
    \/ ProbeListDns(RunDnsResponses)
    \/ ApiVerdict

Spec == Init /\ [][Next]_vars

\* ------------------------------- the certificate check taken alone

InitCerts ==
    /\ os_environ = EmptyDict
    /\ env_file = File(FALSE, FALSE, << >>)
    /\ acme_storage \in Storages
    /\ domains \in DomainLists
    /\ pc = "call_check_certificates"
    /\ probe = NoProbe
    /\ Locals

\* check_certificates_exist_and_valid(acme_storage, domains)
CallCheckCertificates ==
    /\ pc = "call_check_certificates"
    /\ storage_read' = TRUE
    /\ certs' = check_certificates_exist_and_valid(acme_storage, domains)
    /\ pc' = "called"
    /\ UNCHANGED <<externals, env_vars, config, domains, creds, probe, api, requests,
                   responses, lookup, log, verdict, exit_code>>

NextCerts == CallCheckCertificates

SpecCerts == InitCerts /\ [][NextCerts]_vars

\* ------------------------- the lookup and the credential check taken alone

InitLookup ==
    /\ os_environ \in Environments
    /\ env_file \in EnvFiles
    /\ acme_storage = Storage(FALSE, FALSE, JNull)
    /\ domains = << >>
    /\ pc = "call_lookup"
    /\ probe = NoProbe
    /\ Locals

LookupKeys == Keys \cup {<<"UNKNOWN">>}

\* get_env_value(key, load_env_file(env_file))
CallGetEnvValue ==
    /\ pc = "call_lookup"
    /\ env_vars' = load_env_file(env_file)
    /\ \E key \in LookupKeys :
          lookup' = [key |-> key, value |-> get_env_value(key, env_vars', os_environ)]
    /\ pc' = "looked_up"
    /\ UNCHANGED <<externals, config, domains, certs, creds, probe, api, requests,
                   responses, storage_read, log, verdict, exit_code>>

\* validate_cloudflare_credentials(load_env_file(env_file))
CallValidateCredentials ==
    /\ pc = "call_lookup"
    /\ env_vars' = load_env_file(env_file)
    /\ creds' = validate_cloudflare_credentials(env_vars', os_environ)
    /\ pc' = "validated"
    /\ UNCHANGED <<externals, config, domains, certs, probe, api, requests, responses,
                   storage_read, lookup, log, verdict, exit_code>>

NextLookup == CallGetEnvValue \/ CallValidateCredentials

SpecLookup == InitLookup /\ [][NextLookup]_vars

\* ------------------------------------------------- the probe taken alone

\* Longest domain among the generated ones.
MaxDomainLen == 4

\* The domains of the spec's examples, and every short text over two labels
\* and the dot (empty labels included).
ProbeDomains ==
    {S_example_com, S_app_example_com, S_app_example_co_uk, S_example_co_uk}
    \cup SeqsOf({"app", "com", "."}, 1, MaxDomainLen)

\* The tokens main may pass: none is empty.
ProbeTokens == {S_tokenA, S_tokenB, S_tokenC, S_tokenD}

\* test_cloudflare_api_connectivity(api_token, domain) as main calls it, with
\* a token that is not empty and a domain that is not empty.
InitProbe ==
    /\ os_environ = EmptyDict
    /\ env_file = File(FALSE, FALSE, << >>)
    /\ acme_storage = Storage(FALSE, FALSE, JNull)
    /\ domains = << >>
    /\ pc = "probe"
    /\ \E d \in ProbeDomains, tok \in ProbeTokens :
          probe = [NoProbe EXCEPT !.api_token = tok, !.domain = d]
    /\ Locals

NextProbe ==
    \/ ProbeStart
    \/ ProbeListZones(ZoneResponses)
    \/ ProbeListDns(DnsResponses)
    \/ ApiVerdict

SpecProbe == InitProbe /\ [][NextProbe]_vars

\* ------------------------------------------- the file parser taken alone

\* Longest generated configuration line.
MaxLineLen == 5

\* The characters of the generated lines: a word, the equals sign, the two
\* quote characters, the blank and the comment sign.
LineChars == {"K", "=", "\"", "'", " ", "#"}

ConfigLines == SeqsOf(LineChars, 0, MaxLineLen)

\* What a file may hold before the generated line: nothing, or one line.
EarlierLines == {<< >>, << <<"K", "=", "a">> >>, << <<"A", "=", "'", "a", "'">> >>}

\* Files of one generated line, alone or after an earlier line, and the
\* files that are absent or cannot be read.
InitParse ==
    /\ os_environ = EmptyDict
    /\ \/ env_file \in {File(FALSE, FALSE, << >>), File(TRUE, FALSE, << >>)}
       \/ \E e \in EarlierLines, l \in ConfigLines :
             env_file = File(TRUE, TRUE, Append(e, l))
    /\ acme_storage = Storage(FALSE, FALSE, JNull)
    /\ domains = << >>
    /\ pc = "call_load_env_file"
    /\ probe = NoProbe
    /\ Locals

\* load_env_file(env_file)
CallLoadEnvFile ==
    /\ pc = "call_load_env_file"
    /\ env_vars' = load_env_file(env_file)
    /\ Logged(IF env_file.exists /\ ~env_file.readable
              THEN << <<"ERROR", "Failed to parse .env file">> >>
              ELSE << >>)
    /\ pc' = "loaded"
    /\ UNCHANGED <<externals, config, domains, certs, creds, probe, api, requests,
                   responses, storage_read, lookup, verdict, exit_code>>

NextParse == CallLoadEnvFile

SpecParse == InitParse /\ [][NextParse]_vars

\* ------------------------------------------------ check_db_connection.py

\* Most command-line arguments after the script name.
MaxArgs == 5

K_PGPASSWORD == <<"PGPASSWORD">>

\* sys.argv: the script name, then the arguments.
ArgVectors == {<<"check_db_connection.py">> \o a : a \in SeqsOf({"db", "5432"}, 0, MaxArgs)}

\* PGPASSWORD unset, empty, or set.
PasswordEnvironments ==
    {EmptyDict, K_PGPASSWORD :> EmptyStr, K_PGPASSWORD :> <<"secret">>}

\* The psycopg2 module can be imported or not; the server accepts the
\* connection or not.
Databases ==
    {[installed |-> i, reachable |-> r, attempts |-> 0] : i \in BOOLEAN, r \in BOOLEAN}

InitDb ==
    /\ os_environ \in PasswordEnvironments
    /\ argv \in ArgVectors
    /\ database \in Databases
    /\ env_file = File(FALSE, FALSE, << >>)
    /\ acme_storage = Storage(FALSE, FALSE, JNull)
    /\ pc = "db_main"
    /\ env_vars = EmptyDict
    /\ config = NoConfig
    /\ domains = << >>
    /\ certs = NoCerts
    /\ creds = NoCreds
    /\ probe = NoProbe
    /\ api = NoApi
    /\ requests = << >>
    /\ responses = << >>
    /\ storage_read = FALSE
    /\ lookup = NoLookup
    /\ log = << >>
    /\ verdict = "none"
    /\ exit_code = -1

\* check_db_connection.py lines 44-58: the argument count and the password.
DbCheckArguments ==
    /\ pc = "db_main"
    /\ IF Len(argv) # 5
       THEN /\ Logged(<< <<"stderr", "Error: Missing required arguments">> >>)
            /\ pc' = "exited"
            /\ exit_code' = 2
       ELSE IF DictGet(os_environ, K_PGPASSWORD, EmptyStr) = EmptyStr
       THEN /\ Logged(<< <<"stderr", "Error: PGPASSWORD environment variable not set">> >>)
            /\ pc' = "exited"
            /\ exit_code' = 2
       ELSE /\ pc' = "check_connection"
            /\ UNCHANGED <<log, exit_code>>
    /\ UNCHANGED <<os_environ, env_file, acme_storage, argv, database, env_vars, config,
                   domains, certs, creds, probe, api, requests, responses, storage_read,
                   lookup, verdict>>

\* check_db_connection.py lines 24-41 and 60-63: the import of the driver
\* stands before the try, so that its ImportError is caught nowhere and ends
\* the process with a traceback and status 1; psycopg2.connect is one
\* connection attempt.
DbCheckConnection ==
    /\ pc = "check_connection"
    /\ IF ~database.installed
       THEN /\ Logged(<< <<"TRACEBACK", "ModuleNotFoundError">> >>)
            /\ pc' = "crashed"
            /\ exit_code' = 1
            /\ UNCHANGED database
       ELSE /\ database' = [database EXCEPT !.attempts = @ + 1]
            /\ pc' = "exited"
            /\ exit_code' = IF database.reachable THEN 0 ELSE 1
            /\ UNCHANGED log
    /\ UNCHANGED <<os_environ, env_file, acme_storage, argv, env_vars, config, domains,
                   certs, creds, probe, api, requests, responses, storage_read, lookup,
                   verdict>>

NextDb == DbCheckArguments \/ DbCheckConnection

SpecDb == InitDb /\ [][NextDb]_vars

\* ------------------------------------------------- vocabulary of the claims

\* The value main's lookup of a key gives in this environment and file.
LookedUp(key) == get_env_value(key, load_env_file(env_file), os_environ)

\* The store holds a record list under the 'dns' resolver.
HasRecordList(storage) ==
    /\ storage.exists
    /\ storage.parsable
    /\ storage.data.t = "dict"
    /\ K_dns \in DOMAIN storage.data.d
    /\ storage.data.d[K_dns].t = "dict"
    /\ K_Certificates \in DOMAIN storage.data.d[K_dns].d
    /\ storage.data.d[K_dns].d[K_Certificates].t = "list"

RecordList(storage) == storage.data.d[K_dns].d[K_Certificates].xs

\* The record has the given main label.
HasMainLabel(rec, label) ==
    /\ rec.t = "dict"
    /\ K_domain \in DOMAIN rec.d
    /\ rec.d[K_domain].t = "dict"
    /\ K_main \in DOMAIN rec.d[K_domain].d
    /\ rec.d[K_domain].d[K_main] = JStr(label)

\* Some record of the store has the domain, or '*.<domain>', as main label.
HasMatchingRecord(storage, domain) ==
    /\ HasRecordList(storage)
    /\ \E i \in 1..Len(RecordList(storage)) :
          \/ HasMainLabel(RecordList(storage)[i], domain)
          \/ HasMainLabel(RecordList(storage)[i], <<"*", ".">> \o domain)

AllMatched == \A i \in 1..Len(domains) : HasMatchingRecord(acme_storage, domains[i])

\* What load_env_file gives for the file of the run: main holds it in
\* env_vars from its first step on.
Parsed == IF pc = "main" THEN load_env_file(env_file) ELSE env_vars

\* In a run, env_vars is the parse of the file once main has loaded it.
ParsedIsLoaded == pc # "main" => env_vars = load_env_file(env_file)

NotApplicable ==
    \/ get_env_value(K_LE_CHALLENGE, Parsed, os_environ) # S_dns
    \/ get_env_value(K_LE_DNS_PROVIDER, Parsed, os_environ) # S_cloudflare

NoCredential ==
    LookedUp(K_CF_DNS_API_TOKEN) = EmptyStr /\ LookedUp(K_CF_API_TOKEN) = EmptyStr

Verdicts == {"Skipped", "PassedCertsValid", "PassedApiValidated",
             "FailedConfigError", "FailedMissingCredential", "FailedApiZoneError"}

\* The process has ended: by sys.exit, or by an exception nothing caught.
Stopped == pc \in {"exited", "crashed"}

\* ------------------------------------------------------------------ claims

\* C1: whenever the looked-up LE_CHALLENGE is not 'dns', or it is 'dns' and
\* the looked-up LE_DNS_PROVIDER is not 'cloudflare', the run only passes
\* through the mode and provider checks and exits with verdict Skipped and
\* code 0, whatever DOMAIN, SUBDOMAIN, the tokens and the store are; the
\* store is never looked at and no request is sent.
C1_SkipWhenNotApplicable ==
    NotApplicable =>
        /\ ~storage_read
        /\ requests = << >>
        /\ pc \in {"main", "check_challenge", "check_provider", "exited"}
        /\ pc = "exited" => (verdict = "Skipped" /\ exit_code = 0)
        /\ pc # "exited" => (verdict = "none" /\ exit_code = -1)

\* A run skipped because of the provider, with DOMAIN set nowhere and a
\* store that exists.
C1_Witness ==
    /\ pc = "exited"
    /\ verdict = "Skipped"
    /\ exit_code = 0
    /\ config.le_challenge = S_dns
    /\ config.le_dns_provider # S_cloudflare
    /\ K_DOMAIN \notin DOMAIN os_environ
    /\ K_DOMAIN \notin DOMAIN env_vars
    /\ acme_storage.exists

\* C2: once the certificate check has run, if every domain of the domain
\* set has a matching store record, the run has ended with verdict Passed
\* (certs already valid) and code 0, the credential check was not made and
\* no request was sent.
C2_AllMatchedPasses ==
    (storage_read /\ AllMatched) =>
        /\ pc = "exited"
        /\ verdict = "PassedCertsValid"
        /\ exit_code = 0
        /\ creds = NoCreds
        /\ requests = << >>

\* C2 apart from the exception of C6: the statement of C2 holds of every
\* run whose certificate check returned.
C2_HoldsWhenCheckReturns ==
    certs.kind = "raise" \/ C2_AllMatchedPasses

\* C3: once the certificate check has run, if some domain of the domain set
\* has no matching store record and both token variables look up empty, the
\* run goes to the credential check and ends there with verdict Failed
\* (missing credential) and code 1, and no request is sent.
C3_NoCredentialFails ==
    (storage_read /\ ~AllMatched /\ NoCredential) =>
        /\ requests = << >>
        /\ \/ pc = "check_creds" /\ verdict = "none"
           \/ pc = "exited" /\ verdict = "FailedMissingCredential" /\ exit_code = 1

\* C3 apart from the exception of C6: the statement of C3 holds of every
\* run whose certificate check returned.
C3_HoldsWhenCheckReturns ==
    certs.kind = "raise" \/ C3_NoCredentialFails

\* C4: a run that has stopped has exactly one of the six verdicts, with
\* exit code 0 exactly for Skipped and Passed, 1 exactly for Failed, and
\* never 2.
C4_OneVerdictPerRun ==
    Stopped =>
        /\ verdict \in Verdicts
        /\ exit_code = 0 <=> verdict \in {"Skipped", "PassedCertsValid", "PassedApiValidated"}
        /\ exit_code = 1 <=> verdict \in {"FailedConfigError", "FailedMissingCredential",
                                          "FailedApiZoneError"}
        /\ exit_code # 2

\* C4 apart from the exception of C6: the statement of C4 holds of every
\* run whose certificate check returned.
C4_HoldsWhenCheckReturns ==
    certs.kind = "raise" \/ C4_OneVerdictPerRun

\* C5: for a store with a non-empty record sequence under 'dns',
\* check_certificates_exist_and_valid returns, and returns allValid = true
\* exactly when every requested domain has a record whose main label is the
\* domain or '*.<domain>'.
C5_ValidIffAllMatched ==
    (pc = "called" /\ HasRecordList(acme_storage) /\ RecordList(acme_storage) # << >>) =>
        /\ certs.kind = "return"
        /\ certs.valid <=> AllMatched

\* C5 apart from the exception of C6: whenever the check returns, allValid
\* is true exactly when every requested domain has a matching record.
C5_HoldsWhenCheckReturns ==
    certs.kind = "raise" \/ C5_ValidIffAllMatched

\* C6: check_certificates_exist_and_valid never raises: for every store
\* state it returns, and it returns (false, reason) unless every requested
\* domain has a matching record.
C6_NeverRaises ==
    pc = "called" =>
        /\ certs.kind = "return"
        /\ ~AllMatched => ~certs.valid

\* C6 for the states of the store the code does handle: a missing file, an
\* unparsable one, and a document of mappings down to a list of records that
\* are mappings with a mapping 'domain', give (false, reason) unless every
\* requested domain has a matching record.
TolerableStore(storage) ==
    \/ ~storage.exists
    \/ ~storage.parsable
    \/ /\ HasRecordList(storage)
       /\ \A i \in 1..Len(RecordList(storage)) :
             /\ RecordList(storage)[i].t = "dict"
             /\ K_domain \in DOMAIN RecordList(storage)[i].d =>
                   RecordList(storage)[i].d[K_domain].t = "dict"

C6_ReturnsOnTolerableStore ==
    (pc = "called" /\ TolerableStore(acme_storage)) =>
        /\ certs.kind = "return"
        /\ ~AllMatched => ~certs.valid

\* The positions of the dots of a text, and the text after position i.
Dots(s) == {i \in 1..Len(s) : s[i] = "."}
After(s, i) == SubSeq(s, i + 1, Len(s))

\* C7: the base-domain candidate of the probe: a domain with two dots or
\* more (more than two labels) gives the text after its last dot but one,
\* any other domain gives itself; so app.example.com gives example.com,
\* example.com gives example.com and app.example.co.uk gives co.uk.
C7_BaseDomainDerivation ==
    pc # "probe" =>
        LET d == probe.domain
            base == probe.base_domain
        IN  /\ Cardinality(Dots(d)) >= 2 =>
                 \E i \in Dots(d) :
                    /\ Cardinality({j \in Dots(d) : j > i}) = 1
                    /\ base = After(d, i)
            /\ Cardinality(Dots(d)) < 2 => base = d
            /\ d = S_app_example_com => base = S_example_com
            /\ d = S_example_com => base = S_example_com
            /\ d = S_app_example_co_uk => base = S_co_uk

\* The probe has derived co.uk for app.example.co.uk.
C7_Witness ==
    /\ pc # "probe"
    /\ probe.domain = S_app_example_co_uk
    /\ probe.base_domain = S_co_uk

\* The first response is a success-flagged envelope whose result is a
\* non-empty list of zone objects.
IsZoneList(resp) ==
    /\ resp.kind = "JSON"
    /\ resp.data.t = "dict"
    /\ K_success \in DOMAIN resp.data.d
    /\ resp.data.d[K_success] = JBool(TRUE)
    /\ K_result \in DOMAIN resp.data.d
    /\ resp.data.d[K_result].t = "list"
    /\ resp.data.d[K_result].xs # << >>
    /\ \A i \in 1..Len(resp.data.d[K_result].xs) : resp.data.d[K_result].xs[i].t = "dict"

ZonesOf(resp) == resp.data.d[K_result].xs

NameOf(zone) == IF K_name \in DOMAIN zone.d THEN zone.d[K_name] ELSE JStr(EmptyStr)

\* The positions of the zones named as the domain or as the base candidate.
Hits(zones, domain, base) ==
    {i \in 1..Len(zones) : NameOf(zones[i]) \in {JStr(domain), JStr(base)}}

IsZoneNotFound(error) ==
    error # << >> /\ error[1] = "Domain not found in accessible zones"

\* C8: given a successful, non-empty zone list, the probe selects the first
\* zone in response order whose name is the domain or the base candidate
\* and goes on to the second request with it; when no zone matches, and
\* only then, it sends nothing more and fails with ZoneNotFound, an error
\* that lists the name of every zone of the response, and the run ends
\* with code 1.
C8_ZoneResolution ==
    (Len(responses) >= 1 /\ IsZoneList(responses[1])) =>
        LET zones == ZonesOf(responses[1])
            hits == Hits(zones, probe.domain, probe.base_domain)
        IN  IF hits = {}
            THEN /\ Len(requests) = 1
                 /\ ~api.ok
                 /\ api.zone_info = JNull
                 /\ api.error = <<"Domain not found in accessible zones", probe.domain,
                                  probe.base_domain,
                                  [i \in 1..Len(zones) |-> NameOf(zones[i])]>>
                 /\ pc \in {"probe_returned", "exited"}
                 /\ pc = "exited" => (exit_code = 1 /\ verdict = "FailedApiZoneError")
            ELSE /\ \E i \in hits :
                       /\ \A j \in hits : i <= j
                       /\ probe.domain_zone = zones[i]
                 /\ ~IsZoneNotFound(api.error)
                 /\ pc = "list_dns" \/ Len(requests) = 2

\* For app.example.com the list [example.com, app.example.com] selects
\* example.com: the earlier base-domain match, not the later exact one.
C8_Witness ==
    /\ Len(responses) >= 1
    /\ IsZoneList(responses[1])
    /\ probe.domain = S_app_example_com
    /\ ZonesOf(responses[1]) = <<Zone(<<"id-example">>, S_example_com, <<"active">>),
                                 Zone(<<"id-app">>, S_app_example_com, <<"pending">>)>>
    /\ probe.domain_zone = Zone(<<"id-example">>, S_example_com, <<"active">>)

\* C9: get_env_value returns the environment's value whenever the
\* environment sets the key (even to the empty string, even when the file
\* sets it too), otherwise the value parsed from the file, otherwise the
\* empty string.
C9_LookupPrecedence ==
    pc = "looked_up" =>
        lookup.value =
            IF lookup.key \in DOMAIN os_environ THEN os_environ[lookup.key]
            ELSE IF lookup.key \in DOMAIN env_vars THEN env_vars[lookup.key]
            ELSE EmptyStr

\* A key the environment sets to the empty string and the file sets to a
\* value: the lookup gives the empty string.
C9_Witness ==
    /\ pc = "looked_up"
    /\ lookup.key \in DOMAIN os_environ
    /\ lookup.key \in DOMAIN env_vars
    /\ os_environ[lookup.key] = EmptyStr
    /\ env_vars[lookup.key] # EmptyStr
    /\ lookup.value = EmptyStr

\* C10: validate_cloudflare_credentials returns as token the looked-up
\* CF_DNS_API_TOKEN when that is not empty, otherwise the looked-up
\* CF_API_TOKEN when that is not empty; it returns ok = false, with an error
\* text and no token, exactly when both are empty; ok = true never comes
\* with an empty token.
C10_CredentialPriority ==
    pc = "validated" =>
        LET preferred == LookedUp(K_CF_DNS_API_TOKEN)
            legacy == LookedUp(K_CF_API_TOKEN)
        IN  /\ preferred # EmptyStr => (creds.valid /\ creds.token = preferred)
            /\ (preferred = EmptyStr /\ legacy # EmptyStr) =>
                  (creds.valid /\ creds.token = legacy)
            /\ ~creds.valid <=> (preferred = EmptyStr /\ legacy = EmptyStr)
            /\ ~creds.valid => (creds.token = << >> /\ creds.error # << >>)
            /\ creds.valid => (creds.token # EmptyStr /\ creds.error = << >>)

\* Both names are set to different tokens and the preferred one is returned.
C10_Witness ==
    /\ pc = "validated"
    /\ LookedUp(K_CF_DNS_API_TOKEN) = S_tokenA
    /\ LookedUp(K_CF_API_TOKEN) = S_tokenB
    /\ creds.valid
    /\ creds.token = S_tokenA

\* A value enclosed in a matching pair of quote characters: at least two
\* characters, the first and the last the same quote character.
QuotedPair(value) ==
    /\ Len(value) >= 2
    /\ value[1] \in {"\"", "'"}
    /\ value[Len(value)] = value[1]

\* What one line contributes, as the configuration-line rule states it.
LineRule(parsed, raw) ==
    LET line == Strip(raw) IN
    IF line = << >> \/ line[1] = "#" \/ ~HasChar(line, "=") THEN parsed
    ELSE LET i == FirstIndex(line, "=")
             key == Strip(SubSeq(line, 1, i - 1))
             value == Strip(SubSeq(line, i + 1, Len(line)))
         IN  DictSet(parsed, key,
                     IF QuotedPair(value) THEN SubSeq(value, 2, Len(value) - 1)
                     ELSE value)

RECURSIVE LinesRule(_, _)
LinesRule(parsed, lines) ==
    IF lines = << >> THEN parsed
    ELSE LinesRule(LineRule(parsed, Head(lines)), Tail(lines))

\* C11: for every sequence of lines of a readable file, load_env_file gives
\* the mapping the line rule gives: key and value trimmed around the first
\* '=', a matching pair of enclosing quotes removed exactly when there is
\* one (a lone quote character is kept), blank lines, '#' lines and lines
\* without '=' leaving the keys parsed before them as they were.
C11_LineParsing ==
    (pc = "loaded" /\ env_file.exists /\ env_file.readable) =>
        env_vars = LinesRule(EmptyDict, env_file.lines)

\* Some line has a value that is one lone quote character.
HasLoneQuoteValue(lines) ==
    \E n \in 1..Len(lines) :
        LET line == Strip(lines[n]) IN
        /\ line # << >>
        /\ line[1] # "#"
        /\ HasChar(line, "=")
        /\ Strip(SubSeq(line, FirstIndex(line, "=") + 1, Len(line))) \in {<<"\"">>, <<"'">>}

\* C11 apart from the lone quote: the line rule holds of every file none of
\* whose values is one lone quote character.
C11_HoldsWithoutLoneQuote ==
    HasLoneQuoteValue(env_file.lines) \/ C11_LineParsing

\* The run is one of mode dns with provider cloudflare.
Applicable == ~NotApplicable

\* The looked-up DOMAIN is empty or the placeholder.
Unconfigured == get_env_value(K_DOMAIN, Parsed, os_environ) \in {EmptyStr, S_placeholder}

\* C12: in a run of mode dns with provider cloudflare, an empty or
\* placeholder DOMAIN ends the run at the domain check with verdict Fail
\* (config error) and code 1, the store unread, the credential unchecked and
\* no request sent; any other DOMAIN takes the run to the certificate check.
C12_UnconfiguredDomainFails ==
    Applicable =>
        IF Unconfigured
        THEN /\ ~storage_read
             /\ creds = NoCreds
             /\ requests = << >>
             /\ pc \in {"main", "check_challenge", "check_provider", "check_domain", "exited"}
             /\ pc = "exited" => (verdict = "FailedConfigError" /\ exit_code = 1)
        ELSE /\ verdict # "FailedConfigError"
             /\ pc \notin {"main", "check_challenge", "check_provider", "check_domain"} =>
                    (pc = "check_certs" \/ storage_read)
             /\ Stopped => storage_read

\* A run stopped by the placeholder domain.
C12_Witness ==
    /\ Applicable
    /\ get_env_value(K_DOMAIN, Parsed, os_environ) = S_placeholder
    /\ pc = "exited"
    /\ verdict = "FailedConfigError"
    /\ exit_code = 1

\* The probe has returned.
ProbeReturned == pc \in {"probe_returned", "exited"} /\ responses # << >>

\* What the last request met.
LastResponse == responses[Len(responses)]

\* Transport-level failures: while opening the connection (urlopen raises
\* URLError) and while reading the response (the socket times out).
TransportKinds == {"URLError", "ReadTimeout"}

\* The error of the result carries the network label.
NetworkLabelled == api.error # << >> /\ api.error[1] = "Network error"

\* C13: a transport-level failure of either request, while opening the
\* connection or while reading the response, makes the probe return
\* ok = false with an error labelled as a network error; no other outcome
\* of a request carries that label.
C13_TransportFailuresLabelled ==
    ProbeReturned =>
        IF LastResponse.kind \in TransportKinds
        THEN ~api.ok /\ NetworkLabelled
        ELSE ~NetworkLabelled

\* C13 apart from failures while reading: the statement holds of every
\* probe whose last response did not time out while being read.
C13_HoldsWhenOpening ==
    (ProbeReturned /\ LastResponse.kind # "ReadTimeout") => C13_TransportFailuresLabelled

\* The result of the probe for a token, a domain and the responses its
\* requests meet, in order.
ProbeResult(api_token, domain, resps) ==
    IF IllegalHeaderValue(Bearer(api_token)) THEN InvalidHeader(api_token)
    ELSE LET out == ZonesOutcome(resps[1], domain, BaseDomain(domain)) IN
         IF out.final THEN out.result ELSE DnsOutcome(resps[2], out.zone)

\* An execution with the other token receives the responses of this one:
\* both send their requests, or neither sends any.
ReceivesTheSame(other) ==
    IllegalHeaderValue(Bearer(other)) = IllegalHeaderValue(Bearer(probe.api_token))

\* C14: the credential value never reaches the output. Whatever a finished
\* execution printed, concluded and returned, the execution that differs
\* from it in the token value only and receives the same responses prints
\* the same lines, reaches the same verdict and exits with the same code.
C14_TokenNeverPrinted ==
    pc = "exited" =>
        \A other \in ProbeTokens :
            ReceivesTheSame(other) =>
                LET twin == ProbeResult(other, probe.domain, responses) IN
                /\ log = ApiVerdictLines(twin)
                /\ verdict = (IF twin.ok THEN "PassedApiValidated" ELSE "FailedApiZoneError")
                /\ exit_code = (IF twin.ok THEN 0 ELSE 1)

\* C14 apart from the refused header: the statement holds of every
\* execution whose token has no line break in it.
C14_HoldsForSendableTokens ==
    IllegalHeaderValue(Bearer(probe.api_token)) \/ C14_TokenNeverPrinted

\* The record is one of the domain: its main label is the domain or the
\* wildcard of the domain.
RecordOf(rec, domain) ==
    HasMainLabel(rec, domain) \/ HasMainLabel(rec, <<"*", ".">> \o domain)

\* The record's certificate is expired.
Expired(rec) ==
    /\ rec.t = "dict"
    /\ K_certificate \in DOMAIN rec.d
    /\ rec.d[K_certificate] = JStr(S_expired_pem)

\* Some requested domain has certificates in the store, all of them expired.
SomeDomainExpired ==
    /\ HasRecordList(acme_storage)
    /\ \E k \in 1..Len(domains) :
          LET recs == RecordList(acme_storage)
              mine == {i \in 1..Len(recs) : RecordOf(recs[i], domains[k])}
          IN  mine # {} /\ \A i \in mine : Expired(recs[i])

\* C15: when the certificate of some requested domain is expired, the run
\* does not end with Pass (certs already valid); a run that exits has gone
\* on to the credential check.
C15_ExpiredIsNotValid ==
    SomeDomainExpired =>
        /\ verdict # "PassedCertsValid"
        /\ pc = "exited" =>
              verdict \in {"FailedMissingCredential", "FailedApiZoneError",
                           "PassedApiValidated"}

\* What the certificate check does with an expired certificate: a run whose
\* store matches every requested domain ends with Pass (certs already
\* valid) once the check has returned, expired or not.
C15_PresentCountsAsValid ==
    (AllMatched /\ domains # << >> /\ certs.kind = "return") =>
        (certs.valid /\ verdict = "PassedCertsValid")

\* A read request of the provider API: the zone list, or the DNS record
\* list of one zone.
IsReadRequest(req) ==
    /\ req.method = "GET"
    /\ \/ req.path = <<"zones?per_page=50">>
       \/ /\ Len(req.path) = 3
          /\ req.path[1] = "zones/"
          /\ req.path[3] = "/dns_records?per_page=1"

\* C16: no step of a run changes the configuration file or the certificate
\* store, and every request sent to the provider API is one of the two
\* read requests: list zones, then list the DNS records of a zone.
C16_ReadOnly ==
    /\ [][env_file' = env_file /\ acme_storage' = acme_storage]_vars
    /\ [](/\ Len(requests) <= 2
          /\ \A i \in 1..Len(requests) : IsReadRequest(requests[i])
          /\ Len(requests) >= 1 => requests[1].path = <<"zones?per_page=50">>
          /\ Len(requests) = 2 => Len(requests[2].path) = 3)

\* A run over a written configuration file and an existing store that sent
\* both requests and ended.
C16_Witness ==
    /\ pc = "exited"
    /\ Len(requests) = 2
    /\ storage_read
    /\ acme_storage.exists
    /\ env_file = FullFile

\* The utility was called with a wrong number of arguments or without a
\* password.
BadInvocation ==
    Len(argv) # 5 \/ DictGet(os_environ, K_PGPASSWORD, EmptyStr) = EmptyStr

\* C17: check_db_connection exits with code 2 exactly when the argument
\* count is not 4 or PGPASSWORD is unset or empty, and then attempts no
\* connection; otherwise it attempts exactly one connection and exits 0 when
\* the connection succeeded and 1 when it failed.
C17_DbExitCodes ==
    /\ BadInvocation =>
          /\ database.attempts = 0
          /\ pc \in {"db_main", "exited"}
          /\ pc = "exited" => exit_code = 2
    /\ ~BadInvocation =>
          /\ exit_code # 2
          /\ Stopped =>
                /\ database.attempts = 1
                /\ exit_code = (IF database.reachable THEN 0 ELSE 1)

\* C17 apart from the import: the statement holds wherever the psycopg2
\* module can be imported.
C17_HoldsWithDriver ==
    ~database.installed \/ C17_DbExitCodes

\* The list-zones response is a success with a zone matching the domain.
ZonesSucceeded(resp) ==
    IsZoneList(resp) /\ Hits(ZonesOf(resp), probe.domain, probe.base_domain) # {}

\* The list-DNS-records response has its success flag set.
DnsSucceeded(resp) ==
    /\ resp.kind = "JSON"
    /\ resp.data.t = "dict"
    /\ K_success \in DOMAIN resp.data.d
    /\ resp.data.d[K_success] = JBool(TRUE)

\* The request at position i failed.
RequestFailed(i) ==
    IF i = 1 THEN ~ZonesSucceeded(responses[1]) ELSE ~DnsSucceeded(responses[i])

\* C18: the list-zones request is sent at most once, first, and only with
\* the non-empty credential that was found; the list-DNS-records request is
\* sent at most once, second, and only after the list-zones request
\* succeeded with a matching zone; a failed request is the last one, and
\* the run then ends with Fail (API/zone error) and code 1.
C18_NoRetriesStrictOrder ==
    /\ Len(requests) <= 2
    /\ Len(responses) = Len(requests)
    /\ Len(requests) >= 1 =>
          /\ creds.valid
          /\ creds.token # EmptyStr
          /\ requests[1] = ListZonesRequest(creds.token)
    /\ Len(requests) = 2 =>
          /\ ZonesSucceeded(responses[1])
          /\ requests[2] = ListDnsRequest(creds.token,
                                          DictGet(probe.domain_zone.d, K_id, JNull))
    /\ \A i \in 1..Len(requests) :
          RequestFailed(i) =>
              /\ Len(requests) = i
              /\ ~api.ok
              /\ pc \in {"probe_returned", "exited"}
              /\ pc = "exited" => (verdict = "FailedApiZoneError" /\ exit_code = 1)

\* A run whose second request failed, ended.
C18_Witness ==
    /\ pc = "exited"
    /\ Len(requests) = 2
    /\ ZonesSucceeded(responses[1])
    /\ responses[2].kind = "HTTPError"
    /\ verdict = "FailedApiZoneError"
    /\ exit_code = 1

\* The value main's lookup of a key gives once the file is loaded.
Configured(key) == get_env_value(key, env_vars, os_environ)

\* The run has reached the probe.
ProbeReached ==
    \/ pc \in {"probe", "list_zones", "list_dns", "probe_returned"}
    \/ pc = "exited" /\ verdict \in {"FailedApiZoneError", "PassedApiValidated"}

\* C19: once the run has reached the probe, the probe's domain is the
\* primary domain, and the requests sent, the result and the final verdict
\* are those the token, the primary domain and the responses determine,
\* whatever SUBDOMAIN is; with a SUBDOMAIN set, 'sub.primary' is in the
\* domain list of the certificate check, and a zone named 'sub.primary' is
\* selected only when that name is the primary domain's base candidate.
C19_PrimaryDomainOnly ==
    ProbeReached =>
        LET primary == Configured(K_DOMAIN)
            sub == Configured(K_SUBDOMAIN)
            base == BaseDomain(primary)
            first == ZonesOutcome(responses[1], primary, base)
        IN  /\ probe.domain = primary
            /\ probe.base_domain \in {EmptyStr, base}
            /\ Len(requests) >= 1 => requests[1] = ListZonesRequest(creds.token)
            /\ Len(requests) = 2 =>
                  /\ ~first.final
                  /\ probe.domain_zone = first.zone
                  /\ NameOf(first.zone) \in {JStr(primary), JStr(base)}
                  /\ requests[2] = ListDnsRequest(creds.token,
                                                  DictGet(first.zone.d, K_id, JNull))
            /\ pc \in {"probe_returned", "exited"} =>
                  api = ProbeResult(creds.token, primary, responses)
            /\ pc = "exited" =>
                  verdict = (IF api.ok THEN "PassedApiValidated" ELSE "FailedApiZoneError")
            /\ domains = (IF sub # EmptyStr
                          THEN <<primary, sub \o <<".">> \o primary>>
                          ELSE <<primary>>)

\* A run with SUBDOMAIN=app and DOMAIN=example.com whose zone list holds
\* app.example.com alone: the certificate check looked for app.example.com,
\* the probe did not take the zone of that name.
C19_Witness ==
    /\ pc = "exited"
    /\ Configured(K_SUBDOMAIN) = S_app
    /\ Configured(K_DOMAIN) = S_example_com
    /\ domains = <<S_example_com, S_app_example_com>>
    /\ Len(responses) = 1
    /\ IsZoneList(responses[1])
    /\ ZonesOf(responses[1]) = <<Zone(<<"id-app">>, S_app_example_com, <<"pending">>)>>
    /\ IsZoneNotFound(api.error)
    /\ verdict = "FailedApiZoneError"

\* The list-zones response is a success-flagged list with zero zones.
IsEmptyZoneList(resp) ==
    /\ resp.kind = "JSON"
    /\ resp.data.t = "dict"
    /\ K_success \in DOMAIN resp.data.d
    /\ resp.data.d[K_success] = JBool(TRUE)
    /\ K_result \in DOMAIN resp.data.d
    /\ resp.data.d[K_result] = JList(<< >>)

\* The field of the selected zone, None when the zone has no such field.
FieldOf(zone, key) == IF key \in DOMAIN zone.d THEN zone.d[key] ELSE JNull

\* C20: the probe returns ok = true if and only if the list-zones response
\* is a success holding a zone that matches the domain or the base
\* candidate and the list-DNS-records response for that zone has its
\* success flag set; on success the ZoneInfo has the id, name and status of
\* the selected zone (the first match) and no error; on every failure the
\* ZoneInfo is absent and there is an error, which for a success-flagged
\* list of zero zones says that no zones are accessible.
C20_ProbeResult ==
    pc \in {"probe_returned", "exited"} =>
        /\ api.ok <=> /\ Len(responses) = 2
                      /\ ZonesSucceeded(responses[1])
                      /\ DnsSucceeded(responses[2])
        /\ api.ok =>
              LET zones == ZonesOf(responses[1])
                  hits == Hits(zones, probe.domain, probe.base_domain)
                  zone == zones[CHOOSE i \in hits : \A j \in hits : i <= j]
              IN  /\ api.error = << >>
                  /\ api.zone_info.t = "dict"
                  /\ DOMAIN api.zone_info.d = {K_id, K_name, K_status}
                  /\ api.zone_info.d[K_id] = FieldOf(zone, K_id)
                  /\ api.zone_info.d[K_name] = FieldOf(zone, K_name)
                  /\ K_status \in DOMAIN zone.d =>
                        api.zone_info.d[K_status] = zone.d[K_status]
        /\ ~api.ok =>
              /\ api.zone_info = JNull
              /\ api.error # << >>
        /\ (Len(responses) >= 1 /\ IsEmptyZoneList(responses[1])) =>
              /\ Len(requests) = 1
              /\ ~api.ok
              /\ api.error = <<"API token has no access to any zones">>

\* The probe of app.example.com succeeded on the zone example.com.
C20_Witness ==
    /\ pc = "probe_returned"
    /\ api.ok
    /\ probe.domain = S_app_example_com
    /\ api.zone_info = ZoneInfo(JStr(<<"id-example">>), JStr(S_example_com), JStr(<<"active">>))
    /\ DnsSucceeded(responses[2])

\* The second request met an HTTP error status.
DnsHttpError ==
    /\ pc \in {"probe_returned", "exited"}
    /\ Len(responses) = 2
    /\ responses[2].kind = "HTTPError"

\* The text is a prefix of at most `limit` characters of the other.
IsPrefixWithin(text, whole, limit) ==
    /\ Len(text) <= limit
    /\ Len(text) <= Len(whole)
    /\ \A i \in 1..Len(text) : text[i] = whole[i]

\* C21: on the second request an HTTP 403 gives the permission error naming
\* the matched zone, and any other HTTP error status gives an error with
\* the numeric status and at most the first 200 characters of the response
\* body; in both cases the probe returns ok = false and the run ends with
\* Fail (API/zone error) and code 1.
C21_DnsHttpErrors ==
    DnsHttpError =>
        /\ ~api.ok
        /\ api.zone_info = JNull
        /\ pc = "exited" => (verdict = "FailedApiZoneError" /\ exit_code = 1)
        /\ IF responses[2].code = 403
           THEN /\ api.error = <<"API token does not have DNS read permission for zone",
                                 NameOf(probe.domain_zone)>>
                /\ NameOf(probe.domain_zone) \in {JStr(probe.domain), JStr(probe.base_domain)}
           ELSE /\ Len(api.error) = 3
                /\ api.error[1] = "HTTP when checking DNS permissions"
                /\ api.error[2] = responses[2].code
                /\ IsPrefixWithin(api.error[3], Decode(responses[2].body).text, BodyPrefix)

\* C21 apart from bodies that are not UTF-8: the statement holds of every
\* HTTP error whose body can be decoded, and the prefix then has 200
\* characters whenever the body has more.
C21_HoldsForDecodableBodies ==
    (DnsHttpError /\ Decode(responses[2].body).ok) =>
        /\ C21_DnsHttpErrors
        /\ (responses[2].code # 403 /\ Len(Decode(responses[2].body).text) > BodyPrefix) =>
              Len(api.error[3]) = BodyPrefix

====
